---- MODULE Spec2Model ----
(***************************************************************************)
(* The local cache subsystem of the landlord maps UI.                      *)
(*                                                                         *)
(*   useIndexedDB      (src/src/hooks/use-indexed-db.ts): the local        *)
(*                     structured store: three object stores (places,      *)
(*                     reviews, timestamps) and the freshness check.       *)
(*   useCachedPlaces   (src/unnamed/part_001): the cache orchestrator:     *)
(*                     load (fetchPlacesWithCache), the fetch-and-store    *)
(*                     cycle (fetchFreshData), refresh and clear.          *)
(*                                                                         *)
(* Every await of the code is a step boundary: an action is the code that  *)
(* runs from one resumption to the next suspension.  An IndexedDB          *)
(* transaction runs atomically; a request that fails aborts its            *)
(* transaction, which rolls its writes back.                               *)
(***************************************************************************)
EXTENDS Integers, Sequences, FiniteSets, TLC

VARIABLES
    \* ---- useIndexedDB: the database and the hook's state
    dbPlaces,       \* object store 'places'     (keyPath id): a set of records
    dbReviews,      \* object store 'reviews'    (keyPath id): a set of records
    dbTimestamps,   \* object store 'timestamps' (keyPath key): a set of records
    isReady,        \* useState isReady (db is set in the same callback)
    dbError,        \* useState error of useIndexedDB
    opened,         \* whether the open request of initDB has been answered
    mounted,        \* isMounted of the init effect: the component is mounted
    now,            \* Date.now(), in milliseconds
    ticks,          \* how often the clock has advanced
    \* ---- a client of the store calling its operations one after the other
    call,           \* the last completed store call and what it returned
    parsed,         \* the last location handed to parseLocation and its result
    \* ---- useCachedPlaces: the hook's state
    places, loading, error, isFetchingFresh, isCached, fetchingRef,
    \* ---- useCachedPlaces: the asynchronous calls in flight
    load,           \* fetchPlacesWithCache: its position and locals
    cycle,          \* the fetchFreshData call that passed the guard
    inFlight,       \* how many fetchFreshData calls are past the guard (history)
    bounds,         \* fetchPlacesWithinBounds: its position and locals
    ev              \* the last completed step of the orchestrator (history)

storeVars == <<dbPlaces, dbReviews, dbTimestamps>>
readyVars == <<isReady, dbError, opened, mounted>>
clockVars == <<now, ticks>>
clientVars == <<call, parsed>>
hookVars == <<places, loading, error, isFetchingFresh, isCached, fetchingRef>>
taskVars == <<load, cycle, inFlight, bounds, ev>>
vars == <<storeVars, readyVars, clockVars, clientVars, hookVars, taskVars>>

----------------------------------------------------------------------------
(* Bounds and program constants *)

\* the clock advances at most MaxTicks times, by TickMs each time
MaxTicks == 1
\* the longest list a client hands to storePlaces / storeReviews / getReviews
MaxLen == 2
\* cacheDuration = 60 (minutes), the default of useCachedPlaces
CacheDuration == 60

TickMs == 60 * 60 * 1000
PlaceIds == {1, 2}
Keys == {"places", "reviews"}
\* the durations (minutes) a client passes as expiryMinutes / maxAgeMinutes
Durations == {0, 60, 120}

\* place.reviews: undefined, or a list of reviews
Unset == [set |-> FALSE, list |-> <<>>]
Attached(l) == [set |-> TRUE, list |-> l]

Review(i, p) == [id |-> i, place_id |-> p, rating |-> 5]
ReviewRecs == {Review(1, 1), Review(2, 1), Review(2, 2)}
\* a row of the Place table converted to the Place type: reviews not yet set
TypedPlace(i, n) == [id |-> i, name |-> n, reviews |-> Unset]
PlaceRecs == {TypedPlace(1, "n1"), TypedPlace(1, "n2"), TypedPlace(2, "n2")}

SeqsUpTo(S, n) == UNION {[1..k -> S] : k \in 0..n}
SetOf(s) == {s[i] : i \in 1..Len(s)}

----------------------------------------------------------------------------
(* The object stores *)

\* IDBObjectStore.getAll(): the records in ascending key order
RECURSIVE GetAll(_)
GetAll(S) ==
    IF S = {} THEN <<>>
    ELSE LET m == CHOOSE r \in S : \A q \in S : r.id <= q.id
         IN  <<m>> \o GetAll(S \ {m})

\* the loop of store.add(item): add() fails on a key the store already holds
RECURSIVE AddAll(_, _)
AddAll(S, items) ==
    IF items = <<>> THEN [ok |-> TRUE, store |-> S]
    ELSE IF \E r \in S : r.id = Head(items).id
         THEN [ok |-> FALSE, store |-> S]
         ELSE AddAll(S \cup {Head(items)}, Tail(items))

\* a store transaction that adds the items without clearing the store first
AddOnlyTx(S, items, fail) ==
    LET r == AddAll(S, items)
    IN  IF fail \/ ~r.ok THEN [ok |-> FALSE, store |-> S]
        ELSE [ok |-> TRUE, store |-> r.store]

\* The transaction of storePlaces / storeReviews: clear(), then add() of every
\* item.  fail: a request of the transaction fails in the storage engine.  A
\* failed request rejects and aborts the transaction: the store is as before.
ClearAndAddTx(S, items, fail) ==
    LET r == AddAll({}, items)
    IN  IF fail \/ ~r.ok THEN [ok |-> FALSE, store |-> S]
        ELSE [ok |-> TRUE, store |-> r.store]

\* a put that stamps the entry as expiring at once
PutTimestampNoDuration(T, key, timestamp, expiryMinutes) ==
    {r \in T : r.key # key}
        \cup {[key |-> key, timestamp |-> timestamp, expiresAt |-> timestamp]}

\* setCacheTimestamp: store.put({key, timestamp, expiresAt})
PutTimestamp(T, key, timestamp, expiryMinutes) ==
    {r \in T : r.key # key}
        \cup {[key |-> key, timestamp |-> timestamp,
               expiresAt |-> timestamp + (expiryMinutes * 60 * 1000)]}

HasTimestamp(T, key) == \E r \in T : r.key = key
TimestampOf(T, key) == CHOOSE r \in T : r.key = key

\* a validity check that looks at expiresAt only
ValidityExpiryOnly(T, key, maxAgeMinutes, t) ==
    /\ HasTimestamp(T, key)
    /\ t < TimestampOf(T, key).expiresAt

\* isCacheValid, after the record was read: false without a record
Validity(T, key, maxAgeMinutes, t) ==
    /\ HasTimestamp(T, key)
    /\ LET timestampRecord == TimestampOf(T, key)
           maxAge == maxAgeMinutes * 60 * 1000
       IN  /\ t < timestampRecord.expiresAt
           /\ (t - timestampRecord.timestamp) < maxAge

\* one lookup for the set of ids: an id listed twice is looked up once
ReviewsForEachOnce(R, placeIds) ==
    GetAll({r \in R : \E i \in 1..Len(placeIds) : r.place_id = placeIds[i]})

\* index('place_id').getAll(placeId) for each id, concatenated
RECURSIVE ReviewsFor(_, _)
ReviewsFor(R, placeIds) ==
    IF placeIds = <<>> THEN <<>>
    ELSE GetAll({r \in R : r.place_id = Head(placeIds)})
             \o ReviewsFor(R, Tail(placeIds))

\* initDB: request.onsuccess
OpenSuccess ==
    /\ ~opened
    /\ opened' = TRUE
    /\ isReady' = IF mounted THEN TRUE ELSE isReady
    /\ UNCHANGED <<dbError, mounted>>

\* initDB: no indexedDB in window, or request.onerror
OpenError ==
    /\ ~opened
    /\ opened' = TRUE
    /\ dbError' = IF mounted THEN "IndexedDB error" ELSE dbError
    /\ UNCHANGED <<isReady, mounted>>

\* Date.now() advances
Tick ==
    /\ ticks < MaxTicks
    /\ ticks' = ticks + 1
    /\ now' = now + TickMs

\* getPlaces(): [] when not ready or when the read fails
GetPlacesResult(fail) ==
    IF ~isReady \/ fail THEN <<>> ELSE GetAll(dbPlaces)

\* the optional argument placeIds of getReviews: left out, or a list
Omitted == [given |-> FALSE, ids |-> <<>>]
Given(ids) == [given |-> TRUE, ids |-> ids]

\* getReviews(placeIds?): `!placeIds || placeIds.length === 0` reads every
\* review, a list with ids does one index lookup per id
GetReviewsResult(placeIds, fail) ==
    IF ~isReady \/ fail THEN <<>>
    ELSE IF ~placeIds.given \/ Len(placeIds.ids) = 0 THEN GetAll(dbReviews)
    ELSE ReviewsFor(dbReviews, placeIds.ids)

\* isCacheValid(key, maxAgeMinutes): false when not ready or when the read fails
IsCacheValidResult(key, maxAgeMinutes, fail) ==
    IF ~isReady \/ fail THEN FALSE
    ELSE Validity(dbTimestamps, key, maxAgeMinutes, now)

\* a clear that leaves the timestamps store alone
ClearTxKeepTimestamps(fail) ==
    IF fail THEN UNCHANGED storeVars
    ELSE /\ dbPlaces' = {}
         /\ dbReviews' = {}
         /\ UNCHANGED dbTimestamps

\* The transaction of clearCache: clear() on the three object stores
ClearTx(fail) ==
    IF fail THEN UNCHANGED storeVars
    ELSE /\ dbPlaces' = {}
         /\ dbReviews' = {}
         /\ dbTimestamps' = {}

----------------------------------------------------------------------------
(* The store's operations as a client sees them, each awaited to its end *)

\* a completed call: its arguments (key, d, places, reviews, ids), whether the
\* storage engine failed a request of it (failed), its result (ret, with a
\* returned list or number in outPlaces / outReviews / num) and, for a read or
\* a clear, when it ran (at) and which call the client completed before it
\* parseLocation has not been called
NoParse == [location |-> [kind |-> "null", lng |-> [t |-> "num", v |-> 0],
                          lat |-> [t |-> "num", v |-> 0]],
            done |-> FALSE,
            out |-> [ok |-> FALSE, lat |-> [t |-> "num", v |-> 0],
                     lng |-> [t |-> "num", v |-> 0]]]

NoAfter == [op |-> "", ret |-> ""]
NoCall == [op |-> "none", key |-> "", d |-> 0, places |-> <<>>,
           reviews |-> <<>>, given |-> FALSE, ids |-> <<>>, failed |-> FALSE, ret |-> "",
           outPlaces |-> <<>>, outReviews |-> <<>>, num |-> 0,
           at |-> 0, after |-> NoAfter]
After == [op |-> call.op, ret |-> call.ret]

\* storePlaces(places, cacheDurationMinutes); fail: "no", "tx" or "put"
CallStorePlaces(P, d, fail) ==
    LET c == [NoCall EXCEPT !.op = "storePlaces", !.key = "places", !.d = d,
                            !.places = P, !.failed = (fail # "no"), !.at = now]
        tx == ClearAndAddTx(dbPlaces, P, fail = "tx")
    IN  /\ opened
        /\ IF ~isReady
              THEN /\ call' = [c EXCEPT !.ret = "undefined"]
                   /\ UNCHANGED storeVars
           ELSE IF ~tx.ok
              THEN /\ call' = [c EXCEPT !.ret = "false"]
                   /\ UNCHANGED storeVars
           ELSE IF fail = "put"
              THEN /\ dbPlaces' = tx.store
                   /\ call' = [c EXCEPT !.ret = "false"]
                   /\ UNCHANGED <<dbReviews, dbTimestamps>>
           ELSE /\ dbPlaces' = tx.store
                /\ dbTimestamps' = PutTimestamp(dbTimestamps, "places", now, d)
                /\ call' = [c EXCEPT !.ret = "true"]
                /\ UNCHANGED dbReviews

\* storeReviews(reviews, cacheDurationMinutes); fail: "no", "tx" or "put"
CallStoreReviews(R, d, fail) ==
    LET c == [NoCall EXCEPT !.op = "storeReviews", !.key = "reviews", !.d = d,
                            !.reviews = R, !.failed = (fail # "no"), !.at = now]
        tx == ClearAndAddTx(dbReviews, R, fail = "tx")
    IN  /\ opened
        /\ IF ~isReady
              THEN /\ call' = [c EXCEPT !.ret = "undefined"]
                   /\ UNCHANGED storeVars
           ELSE IF ~tx.ok
              THEN /\ call' = [c EXCEPT !.ret = "false"]
                   /\ UNCHANGED storeVars
           ELSE IF fail = "put"
              THEN /\ dbReviews' = tx.store
                   /\ call' = [c EXCEPT !.ret = "false"]
                   /\ UNCHANGED <<dbPlaces, dbTimestamps>>
           ELSE /\ dbReviews' = tx.store
                /\ dbTimestamps' = PutTimestamp(dbTimestamps, "reviews", now, d)
                /\ call' = [c EXCEPT !.ret = "true"]
                /\ UNCHANGED dbPlaces

\* getPlaces()
CallGetPlaces(fail) ==
    /\ opened
    /\ call' = [NoCall EXCEPT !.op = "getPlaces", !.ret = "list",
                              !.failed = fail, !.at = now, !.after = After,
                              !.outPlaces = GetPlacesResult(fail)]
    /\ UNCHANGED storeVars

\* getReviews(placeIds)
CallGetReviews(placeIds, fail) ==
    /\ opened
    /\ call' = [NoCall EXCEPT !.op = "getReviews", !.given = placeIds.given,
                              !.ids = placeIds.ids, !.ret = "list",
                              !.failed = fail, !.at = now, !.after = After,
                              !.outReviews = GetReviewsResult(placeIds, fail)]
    /\ UNCHANGED storeVars

\* isCacheValid(key, maxAgeMinutes)
CallIsCacheValid(key, m, fail) ==
    /\ opened
    /\ call' = [NoCall EXCEPT
                  !.op = "isCacheValid", !.key = key, !.d = m, !.failed = fail,
                  !.at = now, !.after = After,
                  !.ret = IF IsCacheValidResult(key, m, fail)
                          THEN "true" ELSE "false"]
    /\ UNCHANGED storeVars

\* getCacheTimestamp(key): the timestamp, or null
CallGetCacheTimestamp(key, fail) ==
    LET c == [NoCall EXCEPT !.op = "getCacheTimestamp", !.key = key,
                            !.failed = fail]
    IN  /\ opened
        /\ IF isReady /\ ~fail /\ HasTimestamp(dbTimestamps, key)
              THEN call' = [c EXCEPT !.ret = "number",
                             !.num = TimestampOf(dbTimestamps, key).timestamp]
              ELSE call' = [c EXCEPT !.ret = "null"]
        /\ UNCHANGED storeVars

\* clearCache()
CallClearCache(fail) ==
    LET c == [NoCall EXCEPT !.op = "clearCache", !.failed = fail,
                            !.at = now, !.after = After]
    IN  /\ opened
        /\ IF ~isReady
              THEN /\ call' = [c EXCEPT !.ret = "undefined"]
                   /\ UNCHANGED storeVars
              ELSE /\ ClearTx(fail)
                   /\ call' = [c EXCEPT !.ret = IF fail THEN "false" ELSE "true"]

----------------------------------------------------------------------------
(* Initial states *)

\* useCachedPlaces: the useState / useRef initial values
HookInit ==
    /\ places = <<>>
    /\ loading = TRUE
    /\ error = "null"
    /\ isFetchingFresh = FALSE
    /\ isCached = FALSE
    /\ fetchingRef = FALSE

\* fetchPlacesWithCache not yet called.  session: which mount of the page this
\* is; lastStored (history): what storePlaces returned to the last cycle of
\* this session that got to it; prevStored (history): the same for the
\* session before this one
NoLoad == [pc |-> "idle", path |-> "", valid |-> FALSE, session |-> 1,
           lastStored |-> "", prevStored |-> ""]
\* cleared (history): a clear() emptied the store between the place
\* transaction of the cycle and its timestamp put
NoCycle == [pc |-> "idle", owner |-> "none", ready |-> FALSE,
            fetched |-> <<>>, reviews |-> <<>>, ts |-> 0, cleared |-> FALSE]

\* fetchPlacesWithinBounds not running.  zoom: zoomLevel (set = FALSE: undefined);
\* ready: the store readiness its closure holds; list: the places it works on;
\* n: how many calls were made; candidates, kept, rows, gotRows (history): the
\* rows inside the box, the ids the zoom reduction kept, and the rows the
\* Reviews query of the call returned
NoZoom == [set |-> FALSE, level |-> 0]
NoBox == [swLat |-> 0, swLng |-> 0, neLat |-> 0, neLng |-> 0]
NoBounds == [pc |-> "idle", box |-> NoBox, zoom |-> NoZoom, ready |-> FALSE,
             list |-> <<>>, reviews |-> <<>>, ts |-> 0, n |-> 0,
             candidates |-> <<>>, kept |-> <<>>, rows |-> <<>>, gotRows |-> FALSE,
             during |-> "none"]

\* useIndexedDB before the open request is answered, over an empty database
StoreInit ==
    /\ dbPlaces = {}
    /\ dbReviews = {}
    /\ dbTimestamps = {}
    /\ isReady = FALSE
    /\ dbError = "null"
    /\ opened = FALSE
    /\ mounted = TRUE
    /\ now = 0
    /\ ticks = 0

InitStore ==
    /\ StoreInit
    /\ HookInit
    /\ call = NoCall
    /\ parsed = NoParse
    /\ load = NoLoad
    /\ cycle = NoCycle
    /\ inFlight = 0
    /\ bounds = NoBounds
    /\ ev = [act |-> "init", owner |-> "none", ret |-> "", stored |-> ""]

----------------------------------------------------------------------------
(* SpecFresh: the freshness tracker under a client; the clock advances *)

FreshLists == {<<>>, <<TypedPlace(1, "n1")>>}
FreshReviewLists == {<<>>, <<Review(1, 1)>>}
Fails == {"no", "tx", "put"}

NextFresh ==
    \/ OpenSuccess /\ UNCHANGED <<storeVars, clockVars, clientVars, hookVars, taskVars>>
    \/ OpenError /\ UNCHANGED <<storeVars, clockVars, clientVars, hookVars, taskVars>>
    \/ Tick /\ UNCHANGED <<storeVars, readyVars, clientVars, hookVars, taskVars>>
    \/ \E P \in FreshLists, d \in Durations, fail \in Fails :
          CallStorePlaces(P, d, fail) /\ UNCHANGED <<readyVars, clockVars, hookVars, taskVars, parsed>>
    \/ \E R \in FreshReviewLists, d \in Durations, fail \in Fails :
          CallStoreReviews(R, d, fail) /\ UNCHANGED <<readyVars, clockVars, hookVars, taskVars, parsed>>
    \/ \E key \in Keys, m \in Durations, fail \in BOOLEAN :
          CallIsCacheValid(key, m, fail) /\ UNCHANGED <<readyVars, clockVars, hookVars, taskVars, parsed>>
    \/ \E key \in Keys, fail \in BOOLEAN :
          CallGetCacheTimestamp(key, fail) /\ UNCHANGED <<readyVars, clockVars, hookVars, taskVars, parsed>>
    \/ \E fail \in BOOLEAN :
          CallClearCache(fail) /\ UNCHANGED <<readyVars, clockVars, hookVars, taskVars, parsed>>

SpecFresh == InitStore /\ [][NextFresh]_vars

----------------------------------------------------------------------------
(* SpecStore: the three collections under a client *)

NextStore ==
    \/ OpenSuccess /\ UNCHANGED <<storeVars, clockVars, clientVars, hookVars, taskVars>>
    \/ OpenError /\ UNCHANGED <<storeVars, clockVars, clientVars, hookVars, taskVars>>
    \/ \E P \in SeqsUpTo(PlaceRecs, MaxLen), fail \in Fails :
          CallStorePlaces(P, CacheDuration, fail) /\ UNCHANGED <<readyVars, clockVars, hookVars, taskVars, parsed>>
    \/ \E R \in SeqsUpTo(ReviewRecs, MaxLen), fail \in Fails :
          CallStoreReviews(R, CacheDuration, fail) /\ UNCHANGED <<readyVars, clockVars, hookVars, taskVars, parsed>>
    \/ \E fail \in BOOLEAN :
          CallGetPlaces(fail) /\ UNCHANGED <<readyVars, clockVars, hookVars, taskVars, parsed>>
    \/ \E placeIds \in {Omitted} \cup {Given(ids) : ids \in SeqsUpTo(PlaceIds, MaxLen)},
          fail \in BOOLEAN :
          CallGetReviews(placeIds, fail) /\ UNCHANGED <<readyVars, clockVars, hookVars, taskVars, parsed>>
    \/ \E fail \in BOOLEAN :
          CallClearCache(fail) /\ UNCHANGED <<readyVars, clockVars, hookVars, taskVars, parsed>>

SpecStore == InitStore /\ [][NextStore]_vars

----------------------------------------------------------------------------
(* useCachedPlaces: the cache orchestrator *)

\* what the Place query resolves to: an error, or rows (possibly none)
RemotePlaceResults ==
    {[err |-> TRUE, rows |-> <<>>],
     [err |-> FALSE, rows |-> <<>>],
     [err |-> FALSE, rows |-> <<TypedPlace(1, "n2"), TypedPlace(2, "n2")>>]}

\* what the Reviews query resolves to
RemoteReviewResults ==
    {[err |-> TRUE, rows |-> <<>>],
     [err |-> FALSE, rows |-> <<>>],
     [err |-> FALSE, rows |-> <<Review(1, 1)>>]}

QueryError == "Failed to fetch places"
NoRowsError == "No places found in Place table"

\* the six setState / ref assignments of a step
Hook(p, l, e, f, c, r) ==
    /\ places' = p
    /\ loading' = l
    /\ error' = e
    /\ isFetchingFresh' = f
    /\ isCached' = c
    /\ fetchingRef' = r

\* the last step: the action, the call it belongs to, what a call that ended
\* with it returned (ret) and what storePlaces returned in it (stored)
Event(act, owner, ret) ==
    [act |-> act, owner |-> owner, ret |-> ret, stored |-> ""]

\* reviewsByPlaceId[place.id] for every place, with no `|| []`
RECURSIVE AttachReviewsOrUnset(_, _)
AttachReviewsOrUnset(ps, reviews) ==
    IF ps = <<>> THEN <<>>
    ELSE LET own == SelectSeq(reviews, LAMBDA r : r.place_id = Head(ps).id)
         IN  <<[Head(ps) EXCEPT !.reviews = IF own = <<>> THEN Unset ELSE Attached(own)]>>
             \o AttachReviewsOrUnset(Tail(ps), reviews)

\* reviewsByPlaceId[place.id] || [] for every place
RECURSIVE AttachReviews(_, _)
AttachReviews(ps, reviews) ==
    IF ps = <<>> THEN <<>>
    ELSE <<[Head(ps) EXCEPT !.reviews =
              Attached(SelectSeq(reviews, LAMBDA r : r.place_id = Head(ps).id))]>>
         \o AttachReviews(Tail(ps), reviews)

\* the cached-review branch: places get reviews only when some review is cached
AttachCached(ps, cachedReviews) ==
    IF Len(cachedReviews) > 0 THEN AttachReviews(ps, cachedReviews) ELSE ps

\* a cycle that ends without publishing what it fetched
PublishNothing(ps, stored) ==
    /\ Hook(places, (IF cycle.owner = "load" THEN FALSE ELSE loading), error,
            FALSE, isCached, FALSE)
    /\ cycle' = NoCycle
    /\ inFlight' = inFlight - 1
    /\ load' = IF cycle.owner = "load"
               THEN [load EXCEPT !.pc = "done", !.path = "fresh",
                                 !.lastStored = stored]
               ELSE [load EXCEPT !.lastStored = stored]
    /\ ev' = [Event("published", cycle.owner, "true") EXCEPT !.stored = stored]

\* a publication that keeps the published places the cycle did not fetch
PublishKeepingOthers(ps, stored) ==
    /\ Hook(ps \o SelectSeq(places,
                            LAMBDA q : \A i \in 1..Len(ps) : ps[i].id # q.id),
            (IF cycle.owner = "load" THEN FALSE ELSE loading), error,
            FALSE, FALSE, FALSE)
    /\ cycle' = NoCycle
    /\ inFlight' = inFlight - 1
    /\ load' = IF cycle.owner = "load"
               THEN [load EXCEPT !.pc = "done", !.path = "fresh",
                                 !.lastStored = stored]
               ELSE [load EXCEPT !.lastStored = stored]
    /\ ev' = [Event("published", cycle.owner, "true") EXCEPT !.stored = stored]

\* fetchFreshData after storePlaces: setIsCached(false), setPlaces, the finally
\* block, and what the caller does when the call resolves
Publish(ps, stored) ==
    /\ Hook(ps, (IF cycle.owner = "load" THEN FALSE ELSE loading), error,
            FALSE, FALSE, FALSE)
    /\ cycle' = NoCycle
    /\ inFlight' = inFlight - 1
    /\ load' = IF cycle.owner = "load"
               THEN [load EXCEPT !.pc = "done", !.path = "fresh",
                                 !.lastStored = stored]
               ELSE [load EXCEPT !.lastStored = stored]
    /\ ev' = [Event("published", cycle.owner, "true") EXCEPT !.stored = stored]

\* a failure path that records the error for every caller
ThrowRecordingError(msg) ==
    /\ Hook(places, loading, msg, FALSE, isCached, FALSE)
    /\ cycle' = NoCycle
    /\ inFlight' = inFlight - 1
    /\ load' = IF cycle.owner = "load"
               THEN [load EXCEPT !.pc = "awaitFallback"] ELSE load
    /\ ev' = Event("failed", cycle.owner, "false")

\* a failure path that falls back to the stored places for every caller
ThrowWithFallback(msg) ==
    /\ Hook(GetAll(dbPlaces), loading, (IF cycle.owner = "bg" THEN error ELSE msg),
            FALSE, TRUE, FALSE)
    /\ cycle' = NoCycle
    /\ inFlight' = inFlight - 1
    /\ load' = IF cycle.owner = "load"
               THEN [load EXCEPT !.pc = "awaitFallback"] ELSE load
    /\ ev' = Event("failed", cycle.owner, "false")

\* a failure path without `fetchingRef.current = false`
ThrowKeepingGuard(msg) ==
    /\ Hook(places, loading, (IF cycle.owner = "bg" THEN error ELSE msg),
            FALSE, isCached, fetchingRef)
    /\ cycle' = NoCycle
    /\ inFlight' = inFlight - 1
    /\ load' = IF cycle.owner = "load"
               THEN [load EXCEPT !.pc = "awaitFallback"] ELSE load
    /\ ev' = Event("failed", cycle.owner, "false")

\* fetchFreshData throws: the finally block, and the caller's catch
Throw(msg) ==
    /\ Hook(places, loading, (IF cycle.owner = "bg" THEN error ELSE msg),
            FALSE, isCached, FALSE)
    /\ cycle' = NoCycle
    /\ inFlight' = inFlight - 1
    /\ load' = IF cycle.owner = "load"
               THEN [load EXCEPT !.pc = "awaitFallback"] ELSE load
    /\ ev' = Event("failed", cycle.owner, "false")

\* a guard that lets every call through
StartFreshUnguarded(owner, ready, l, p, c) ==
    /\ Hook(p, l, error, TRUE, c, TRUE)
    /\ inFlight' = inFlight + 1
    /\ cycle' = [NoCycle EXCEPT !.pc = "awaitPlaces", !.owner = owner,
                                !.ready = ready]

\* fetchFreshData up to the Place query, called by owner with the store
\* readiness its closure holds; l, p, c: loading, places, isCached at the call.
\* With the guard set the call returns at once.
StartFresh(owner, ready, l, p, c) ==
    IF fetchingRef
    THEN /\ Hook(p, l, error, isFetchingFresh, c, fetchingRef)
         /\ UNCHANGED <<cycle, inFlight>>
    ELSE /\ Hook(p, l, error, TRUE, c, TRUE)
         /\ inFlight' = inFlight + 1
         /\ cycle' = [NoCycle EXCEPT !.pc = "awaitPlaces", !.owner = owner,
                                     !.ready = ready]

\* the initial-fetch effect: fetchPlacesWithCache up to isCacheValid
LoadStart ==
    /\ mounted
    /\ isReady
    /\ load.pc = "idle"
    /\ Hook(places, TRUE, "null", isFetchingFresh, isCached, fetchingRef)
    /\ load' = [load EXCEPT !.pc = "awaitValid"]
    /\ ev' = Event("loadStart", "load", "")
    /\ UNCHANGED <<cycle, inFlight, storeVars>>

\* fetchPlacesWithCache: `await fetchFreshData()`; a suppressed call resolves at
\* once and the finally block sets loading to false
LoadFetchFresh(valid) ==
    /\ StartFresh("load", TRUE, (IF fetchingRef THEN FALSE ELSE loading),
                  places, isCached)
    /\ load' = IF fetchingRef
               THEN [load EXCEPT !.pc = "done", !.path = "suppressed", !.valid = valid]
               ELSE [load EXCEPT !.pc = "awaitCycle", !.valid = valid]
    /\ ev' = Event((IF fetchingRef THEN "loadSuppressed" ELSE "loadMiss"), "load", "")

\* isCacheValid("places", cacheDuration) resolves
LoadValidResolved ==
    \E fail \in BOOLEAN :
        /\ load.pc = "awaitValid"
        /\ IF IsCacheValidResult("places", CacheDuration, fail)
              THEN /\ load' = [load EXCEPT !.pc = "awaitCached", !.valid = TRUE]
                   /\ ev' = Event("loadValid", "load", "")
                   /\ UNCHANGED <<hookVars, cycle, inFlight>>
              ELSE LoadFetchFresh(FALSE)
        /\ UNCHANGED storeVars

\* getPlaces() of the cache-hit path resolves
LoadCachedResolved ==
    \E fail \in BOOLEAN :
        LET cachedPlaces == GetPlacesResult(fail)
        IN  /\ load.pc = "awaitCached"
            /\ IF Len(cachedPlaces) > 0
                  THEN /\ StartFresh("bg", TRUE, FALSE, cachedPlaces, TRUE)
                       /\ load' = [load EXCEPT !.pc = "done", !.path = "hit"]
                       /\ ev' = Event("loadHit", "load",
                                      IF fetchingRef THEN "suppressed" ELSE "started")
                  ELSE LoadFetchFresh(TRUE)
            /\ UNCHANGED storeVars

\* getPlaces() of the fallback path resolves
LoadFallbackResolved ==
    \E fail \in BOOLEAN :
        LET cachedPlaces == GetPlacesResult(fail)
        IN  /\ load.pc = "awaitFallback"
            /\ IF Len(cachedPlaces) > 0
                  THEN /\ Hook(cachedPlaces, FALSE, error, isFetchingFresh, TRUE,
                               fetchingRef)
                       /\ load' = [load EXCEPT !.pc = "done", !.path = "fallback"]
                  ELSE /\ Hook(<<>>, FALSE, error, isFetchingFresh, isCached,
                               fetchingRef)
                       /\ load' = [load EXCEPT !.pc = "done", !.path = "empty"]
            /\ ev' = Event("loadFallback", "load", "")
            /\ UNCHANGED <<cycle, inFlight, storeVars>>

\* fetchFreshData: the Place query resolves
PlaceQueryResolved ==
    \E res \in RemotePlaceResults :
        /\ cycle.pc = "awaitPlaces"
        /\ IF res.err THEN Throw(QueryError)
           ELSE IF Len(res.rows) = 0 THEN Throw(NoRowsError)
           ELSE /\ cycle' = [cycle EXCEPT !.pc = "awaitReviews", !.fetched = res.rows]
                /\ ev' = Event("rows", cycle.owner, "")
                /\ UNCHANGED <<hookVars, load, inFlight>>
        /\ UNCHANGED storeVars

\* fetchFreshData: `await storePlaces(placesWithReviews, cacheDuration)` begins;
\* storePlaces of a closure without the database returns at once
BeginStorePlaces(ps) ==
    IF cycle.ready
    THEN /\ cycle' = [cycle EXCEPT !.pc = "storePlacesTx", !.fetched = ps]
         /\ ev' = Event("reviewed", cycle.owner, "")
         /\ UNCHANGED <<hookVars, load, inFlight>>
    ELSE Publish(ps, "undefined")

\* fetchReviewsForPlaces: the Reviews query resolves
ReviewsQueryResolved ==
    \E res \in RemoteReviewResults :
        /\ cycle.pc = "awaitReviews"
        /\ IF res.err THEN BeginStorePlaces(cycle.fetched)
           ELSE IF Len(res.rows) > 0
              THEN IF cycle.ready
                   THEN /\ cycle' = [cycle EXCEPT !.pc = "storeReviewsTx",
                                                  !.reviews = res.rows]
                        /\ ev' = Event("reviewRows", cycle.owner, "")
                        /\ UNCHANGED <<hookVars, load, inFlight>>
                   ELSE Publish(AttachReviews(cycle.fetched, res.rows), "undefined")
           ELSE IF cycle.ready
              THEN /\ cycle' = [cycle EXCEPT !.pc = "awaitGetReviews"]
                   /\ ev' = Event("noReviewRows", cycle.owner, "")
                   /\ UNCHANGED <<hookVars, load, inFlight>>
              ELSE Publish(AttachCached(cycle.fetched, <<>>), "undefined")
        /\ UNCHANGED storeVars

\* storeReviews: the clear-and-add transaction runs; setCacheTimestamp reads
\* Date.now() when it is called, in the callback of the last add
StoreReviewsTx ==
    \E fail \in BOOLEAN :
        LET tx == ClearAndAddTx(dbReviews, cycle.reviews, fail)
        IN  /\ cycle.pc = "storeReviewsTx"
            /\ dbReviews' = tx.store
            /\ IF tx.ok
                  THEN cycle' = [cycle EXCEPT !.pc = "storeReviewsPut", !.ts = now]
                  ELSE cycle' = [cycle EXCEPT
                                   !.pc = "storePlacesTx", !.reviews = <<>>,
                                   !.fetched = AttachReviews(cycle.fetched, cycle.reviews)]
            /\ ev' = Event("storeReviewsTx", cycle.owner, IF tx.ok THEN "true" ELSE "false")
            /\ UNCHANGED <<hookVars, load, inFlight, dbPlaces, dbTimestamps>>

\* storeReviews: the put of the 'reviews' timestamp runs; then the reviews are
\* attached and storePlaces begins
StoreReviewsPut ==
    \E fail \in BOOLEAN :
        /\ cycle.pc = "storeReviewsPut"
        /\ dbTimestamps' = IF fail THEN dbTimestamps
                           ELSE PutTimestamp(dbTimestamps, "reviews", cycle.ts,
                                             CacheDuration)
        /\ cycle' = [cycle EXCEPT !.pc = "storePlacesTx", !.reviews = <<>>, !.ts = 0,
                                  !.fetched = AttachReviews(cycle.fetched, cycle.reviews)]
        /\ ev' = Event("storeReviewsPut", cycle.owner, IF fail THEN "false" ELSE "true")
        /\ UNCHANGED <<hookVars, load, inFlight, dbPlaces, dbReviews>>

\* fetchReviewsForPlaces: getReviews() of the zero-rows branch resolves
GetReviewsResolved ==
    \E fail \in BOOLEAN :
        /\ cycle.pc = "awaitGetReviews"
        /\ cycle' = [cycle EXCEPT
                       !.pc = "storePlacesTx",
                       !.fetched = AttachCached(cycle.fetched, GetReviewsResult(Omitted, fail))]
        /\ ev' = Event("cachedReviews", cycle.owner, "")
        /\ UNCHANGED <<hookVars, load, inFlight, storeVars>>

\* storePlaces: the clear-and-add transaction runs
StorePlacesTx ==
    \E fail \in BOOLEAN :
        LET tx == ClearAndAddTx(dbPlaces, cycle.fetched, fail)
        IN  /\ cycle.pc = "storePlacesTx"
            /\ dbPlaces' = tx.store
            /\ IF tx.ok
                  THEN /\ cycle' = [cycle EXCEPT !.pc = "storePlacesPut", !.ts = now]
                       /\ ev' = Event("storePlacesTx", cycle.owner, "true")
                       /\ UNCHANGED <<hookVars, load, inFlight>>
                  ELSE Publish(cycle.fetched, "false")
            /\ UNCHANGED <<dbReviews, dbTimestamps>>

\* storePlaces: the put of the 'places' timestamp runs; storePlaces returns and
\* fetchFreshData publishes
StorePlacesPut ==
    \E fail \in BOOLEAN :
        /\ cycle.pc = "storePlacesPut"
        /\ dbTimestamps' = IF fail THEN dbTimestamps
                           ELSE PutTimestamp(dbTimestamps, "places", cycle.ts,
                                             CacheDuration)
        /\ Publish(cycle.fetched, IF fail THEN "false" ELSE "true")
        /\ UNCHANGED <<dbPlaces, dbReviews>>

\* refreshData(): setIsFetchingFresh(true), fetchFreshData; a suppressed call
\* returns true at once and the finally block clears isFetchingFresh
CallRefresh ==
    /\ mounted
    /\ IF fetchingRef
          THEN /\ Hook(places, loading, error, FALSE, isCached, fetchingRef)
               /\ ev' = Event("refreshSuppressed", "refresh", "true")
               /\ UNCHANGED <<cycle, inFlight>>
          ELSE /\ StartFresh("refresh", isReady, loading, places, isCached)
               /\ ev' = Event("refreshStart", "refresh", "")
    /\ UNCHANGED <<load, storeVars>>

\* clearPlacesCache(): true after clearCache() on a ready store, else false
ClearPlacesCache ==
    \E fail \in BOOLEAN :
        /\ mounted
        /\ IF isReady
              THEN /\ ClearTx(fail)
                   /\ ev' = Event("clear", "user", "true")
              ELSE /\ UNCHANGED storeVars
                   /\ ev' = Event("clear", "user", "false")
        /\ cycle' = IF isReady /\ ~fail /\ cycle.pc = "storePlacesPut"
                    THEN [cycle EXCEPT !.cleared = TRUE] ELSE cycle
        /\ UNCHANGED <<hookVars, load, inFlight>>

\* what an earlier session left in the database: nothing, or one place stored
\* without reviews at time 0 by a cycle whose Reviews query failed
PersistedStores ==
    {[places |-> {}, timestamps |-> {}],
     [places |-> {TypedPlace(1, "n1")},
      timestamps |-> PutTimestamp({}, "places", 0, CacheDuration)]}

Init ==
    /\ \E st \in PersistedStores :
          /\ dbPlaces = st.places
          /\ dbTimestamps = st.timestamps
    /\ dbReviews = {}
    /\ isReady = FALSE
    /\ dbError = "null"
    /\ opened = FALSE
    /\ mounted = TRUE
    /\ now = 0
    /\ ticks = 0
    /\ HookInit
    /\ call = NoCall
    /\ parsed = NoParse
    /\ load = NoLoad
    /\ cycle = NoCycle
    /\ inFlight = 0
    /\ bounds = NoBounds
    /\ ev = Event("init", "none", "")

Next ==
    \/ OpenSuccess /\ ev' = Event("open", "store", "true")
          /\ UNCHANGED <<storeVars, clockVars, clientVars, hookVars, load, cycle, inFlight, bounds>>
    \/ OpenError /\ ev' = Event("open", "store", "false")
          /\ UNCHANGED <<storeVars, clockVars, clientVars, hookVars, load, cycle, inFlight, bounds>>
    \/ Tick /\ ev' = Event("tick", "clock", "")
          /\ UNCHANGED <<storeVars, readyVars, clientVars, hookVars, load, cycle, inFlight, bounds>>
    \/ LoadStart /\ UNCHANGED <<readyVars, clockVars, clientVars, bounds>>
    \/ LoadValidResolved /\ UNCHANGED <<readyVars, clockVars, clientVars, bounds>>
    \/ LoadCachedResolved /\ UNCHANGED <<readyVars, clockVars, clientVars, bounds>>
    \/ LoadFallbackResolved /\ UNCHANGED <<readyVars, clockVars, clientVars, bounds>>
    \/ PlaceQueryResolved /\ UNCHANGED <<readyVars, clockVars, clientVars, bounds>>
    \/ ReviewsQueryResolved /\ UNCHANGED <<readyVars, clockVars, clientVars, bounds>>
    \/ StoreReviewsTx /\ UNCHANGED <<readyVars, clockVars, clientVars, bounds>>
    \/ StoreReviewsPut /\ UNCHANGED <<readyVars, clockVars, clientVars, bounds>>
    \/ GetReviewsResolved /\ UNCHANGED <<readyVars, clockVars, clientVars, bounds>>
    \/ StorePlacesTx /\ UNCHANGED <<readyVars, clockVars, clientVars, bounds>>
    \/ StorePlacesPut /\ UNCHANGED <<readyVars, clockVars, clientVars, bounds>>
    \/ CallRefresh /\ UNCHANGED <<readyVars, clockVars, clientVars, bounds>>
    \/ ClearPlacesCache /\ UNCHANGED <<readyVars, clockVars, clientVars, bounds>>

Spec == Init /\ [][Next]_vars

\* Every request that is outstanding is answered: the open request, the
\* store's reads and transactions, the remote queries; and the initial-fetch
\* effect runs once the store is ready.  Calls by the user (refresh, clear) and
\* the clock are under no obligation.
Fairness ==
    /\ WF_vars(Next /\ (OpenSuccess \/ OpenError))
    /\ WF_vars(Next /\ LoadStart)
    /\ WF_vars(Next /\ LoadValidResolved)
    /\ WF_vars(Next /\ LoadCachedResolved)
    /\ WF_vars(Next /\ LoadFallbackResolved)
    /\ WF_vars(Next /\ PlaceQueryResolved)
    /\ WF_vars(Next /\ ReviewsQueryResolved)
    /\ WF_vars(Next /\ StoreReviewsTx)
    /\ WF_vars(Next /\ StoreReviewsPut)
    /\ WF_vars(Next /\ GetReviewsResolved)
    /\ WF_vars(Next /\ StorePlacesTx)
    /\ WF_vars(Next /\ StorePlacesPut)

SpecLive == Init /\ [][Next]_vars /\ Fairness

\* the page is loaded at most MaxSessions times
MaxSessions == 2

\* The page is reloaded while no cycle is in flight: the hooks mount again with
\* their initial state over the database as it is.
Reload ==
    /\ load.session < MaxSessions
    /\ cycle.pc = "idle"
    /\ load.pc \in {"idle", "done"}
    /\ places' = <<>>
    /\ loading' = TRUE
    /\ error' = "null"
    /\ isFetchingFresh' = FALSE
    /\ isCached' = FALSE
    /\ fetchingRef' = FALSE
    /\ isReady' = FALSE
    /\ dbError' = "null"
    /\ opened' = FALSE
    /\ mounted' = TRUE
    /\ load' = [NoLoad EXCEPT !.session = load.session + 1,
                              !.prevStored = load.lastStored]
    /\ ev' = Event("reload", "user", "")
    /\ UNCHANGED <<storeVars, clockVars, clientVars, cycle, inFlight, bounds>>

NextReload == Next \/ Reload

\* The component unmounts: the cleanup of the init effect clears isMounted (its
\* closure holds db = null, so nothing is closed); the calls in flight go on.
Unmount ==
    /\ mounted
    /\ mounted' = FALSE
    /\ ev' = Event("unmount", "user", "")
    /\ UNCHANGED <<storeVars, isReady, dbError, opened, clockVars, clientVars,
                   hookVars, load, cycle, inFlight, bounds>>

NextUnmount == Next \/ Unmount

SpecUnmount == Init /\ [][NextUnmount]_vars

SpecReload == Init /\ [][NextReload]_vars

----------------------------------------------------------------------------
(* fetchPlacesWithinBounds: the viewport fetch and its merge (SpecBounds) *)

\* the Place table holds the ids 1..MaxRows and a row whose location no
\* format of parseLocation matches (id 0)
MaxRows == 101
\* how many viewport fetches are made
MaxFetches == 2
\* zoomLevel < 10: only places with reviews
LowZoom == 10
\* zoomLevel < 14 with more than MidTierCount candidates: reduced to MidTierCount
MidZoom == 14
MidTierCount == 30
\* the cap of the merged list
PlaceCap == 100

Min(a, b) == IF a < b THEN a ELSE b
Max(a, b) == IF a > b THEN a ELSE b

\* parseLocation(place.location) of the row with this id: null, or {lat, lng};
\* the rows lie on one meridian, the row with id i at latitude i
RowLocation(id) ==
    IF id = 0 THEN [ok |-> FALSE, lat |-> 0, lng |-> 0]
    ELSE [ok |-> TRUE, lat |-> id, lng |-> 0]

\* the rows with ids lo..hi in ascending order, converted to the Place type
RECURSIVE RowRange(_, _)
RowRange(lo, hi) ==
    IF lo > hi THEN <<>> ELSE <<TypedPlace(lo, "n2")>> \o RowRange(lo + 1, hi)

\* one review for each of the places lo..hi
RECURSIVE ReviewRange(_, _)
ReviewRange(lo, hi) ==
    IF lo > hi THEN <<>> ELSE <<Review(lo, lo)>> \o ReviewRange(lo + 1, hi)

\* what the Place query of a viewport fetch resolves to
BoundsPlaceResults ==
    {[err |-> TRUE, rows |-> <<>>],
     [err |-> FALSE, rows |-> <<>>],
     [err |-> FALSE, rows |-> RowRange(0, MaxRows)]}

\* what the Reviews query of a viewport fetch resolves to
BoundsReviewResults ==
    {[err |-> TRUE, rows |-> <<>>],
     [err |-> FALSE, rows |-> <<>>],
     [err |-> FALSE, rows |-> ReviewRange(1, 5)],
     [err |-> FALSE, rows |-> <<Review(1, 1), Review(2, 1), Review(3, MaxRows + 1)>>],
     [err |-> FALSE, rows |-> ReviewRange(1, MaxRows)]}

\* the viewports (northEast, southWest) and zoom levels the map asks for
Boxes ==
    {[swLat |-> lo, swLng |-> 0, neLat |-> hi, neLng |-> 0] :
        lo \in {1}, hi \in {MidTierCount, MidTierCount + 1, MaxRows}}
        \cup {[swLat |-> 2, swLng |-> 0, neLat |-> 3, neLng |-> 0]}
Zooms ==
    {NoZoom} \cup {[set |-> TRUE, level |-> z] :
                     z \in {LowZoom - 1, LowZoom, MidZoom - 1, MidZoom}}

\* the filter on the parsed location
InBox(place, box) ==
    LET location == RowLocation(place.id)
    IN  /\ location.ok
        /\ location.lat >= box.swLat
        /\ location.lat <= box.neLat
        /\ location.lng >= box.swLng
        /\ location.lng <= box.neLng

\* place.reviews && place.reviews.length > 0
HasReviews(place) == place.reviews.set /\ Len(place.reviews.list) > 0

\* filteredByZoom
ZoomFilter(typedPlaces, zoomLevel) ==
    IF ~zoomLevel.set THEN typedPlaces
    ELSE IF zoomLevel.level < LowZoom
       THEN SelectSeq(typedPlaces, HasReviews)
    ELSE IF zoomLevel.level < MidZoom /\ Len(typedPlaces) > MidTierCount
       THEN LET withReviews == SelectSeq(typedPlaces, HasReviews)
                withoutReviews == SelectSeq(typedPlaces, LAMBDA p : ~HasReviews(p))
                totalToShow == Min(MidTierCount, Len(typedPlaces))
                withoutReviewsToShow == Max(0, totalToShow - Len(withReviews))
            IN  withReviews \o
                  SubSeq(withoutReviews, 1, Min(withoutReviewsToShow, Len(withoutReviews)))
    ELSE typedPlaces

\* the places of ps whose id prevPlaces does not hold
NewPlaces(prevPlaces, ps) ==
    SelectSeq(ps, LAMBDA p : \A i \in 1..Len(prevPlaces) : prevPlaces[i].id # p.id)

\* a merge that appends every fetched place, whether or not its id is published
MergeAppendingAll(prevPlaces, placesWithReviews, zoomLevel) ==
    prevPlaces \o placesWithReviews

\* a merge in which a fetched place replaces the published place with its id
MergeOverwriting(prevPlaces, placesWithReviews, zoomLevel) ==
    SelectSeq(prevPlaces,
              LAMBDA q : \A i \in 1..Len(placesWithReviews) :
                            placesWithReviews[i].id # q.id)
        \o placesWithReviews

\* the updater handed to setPlaces
MergePlaces(prevPlaces, placesWithReviews, zoomLevel) ==
    LET newPlaces == NewPlaces(prevPlaces, placesWithReviews)
        combinedPlaces == prevPlaces \o newPlaces
        withReviews == SelectSeq(combinedPlaces, HasReviews)
        withoutReviews == SelectSeq(combinedPlaces, LAMBDA p : ~HasReviews(p))
        remainingSpots == Max(0, PlaceCap - Len(withReviews))
    IN  IF Len(newPlaces) > 0
        THEN IF zoomLevel.set /\ Len(combinedPlaces) > PlaceCap
             THEN withReviews \o
                    SubSeq(withoutReviews, 1, Min(remainingSpots, Len(withoutReviews)))
             ELSE combinedPlaces
        ELSE prevPlaces

\* whether the updater takes the capping branch
CapApplies(prevPlaces, placesWithReviews, zoomLevel) ==
    LET newPlaces == NewPlaces(prevPlaces, placesWithReviews)
    IN  /\ Len(newPlaces) > 0
        /\ zoomLevel.set
        /\ Len(prevPlaces) + Len(newPlaces) > PlaceCap

\* fetchPlacesWithinBounds(northEast, southWest, zoomLevel) up to the Place
\* query; the history of the call before it is dropped
CallBounds ==
    \E box \in Boxes, zoomLevel \in Zooms :
        /\ mounted
        /\ bounds.pc = "idle"
        /\ bounds.n < MaxFetches
        /\ bounds' = [NoBounds EXCEPT !.pc = "awaitPlaces", !.box = box,
                                      !.zoom = zoomLevel, !.ready = isReady,
                                      !.n = bounds.n + 1]
        /\ ev' = Event("boundsStart", "bounds", "")
        /\ UNCHANGED <<hookVars, storeVars>>

\* the setPlaces of the merge; fetchPlacesWithinBounds returns
BoundsMerge(ps, rows, gotRows) ==
    /\ places' = MergePlaces(places, ps, bounds.zoom)
    /\ bounds' = [bounds EXCEPT !.pc = "idle", !.list = ps, !.reviews = <<>>,
                                !.ts = 0, !.rows = rows, !.gotRows = gotRows,
                                !.during = IF cycle.pc = "idle" THEN "none"
                                           ELSE cycle.owner]
    /\ ev' = Event("boundsMerged", "bounds",
                   IF CapApplies(places, ps, bounds.zoom) THEN "capped"
                   ELSE IF Len(NewPlaces(places, ps)) > 0 THEN "appended"
                   ELSE "same")
    /\ UNCHANGED <<loading, error, isFetchingFresh, isCached, fetchingRef>>

\* the Place query of the viewport fetch resolves: an error is caught and
\* logged, no rows are logged, rows are filtered by box and zoom and handed to
\* fetchReviewsForPlaces
BoundsPlacesResolved ==
    \E res \in BoundsPlaceResults :
        /\ bounds.pc = "awaitPlaces"
        /\ IF res.err \/ Len(res.rows) = 0
              THEN /\ bounds' = [bounds EXCEPT !.pc = "idle"]
                   /\ ev' = Event("boundsNothing", "bounds", "")
              ELSE LET typedPlaces ==
                           SelectSeq(res.rows, LAMBDA p : InBox(p, bounds.box))
                       filteredByZoom == ZoomFilter(typedPlaces, bounds.zoom)
                   IN  /\ bounds' = [bounds EXCEPT
                                       !.pc = "awaitReviews",
                                       !.candidates = typedPlaces,
                                       !.kept = filteredByZoom,
                                       !.list = filteredByZoom]
                       /\ ev' = Event("boundsRows", "bounds", "")
        /\ UNCHANGED <<hookVars, storeVars>>

\* fetchReviewsForPlaces of the viewport fetch: the Reviews query resolves
BoundsReviewsResolved ==
    \E res \in BoundsReviewResults :
        /\ bounds.pc = "awaitReviews"
        /\ IF res.err THEN BoundsMerge(bounds.list, <<>>, FALSE)
           ELSE IF Len(res.rows) > 0
              THEN IF bounds.ready
                   THEN /\ bounds' = [bounds EXCEPT !.pc = "storeReviewsTx",
                                                    !.reviews = res.rows,
                                                    !.rows = res.rows,
                                                    !.gotRows = TRUE]
                        /\ ev' = Event("boundsReviewRows", "bounds", "")
                        /\ UNCHANGED hookVars
                   ELSE BoundsMerge(AttachReviews(bounds.list, res.rows), res.rows, TRUE)
              ELSE IF bounds.ready
                 THEN /\ bounds' = [bounds EXCEPT !.pc = "awaitGetReviews",
                                                  !.gotRows = TRUE]
                      /\ ev' = Event("boundsNoReviewRows", "bounds", "")
                      /\ UNCHANGED hookVars
                 ELSE BoundsMerge(AttachCached(bounds.list, <<>>), <<>>, TRUE)
        /\ UNCHANGED storeVars

\* storeReviews of the viewport fetch: the clear-and-add transaction runs
BoundsStoreReviewsTx ==
    \E fail \in BOOLEAN :
        LET tx == ClearAndAddTx(dbReviews, bounds.reviews, fail)
        IN  /\ bounds.pc = "storeReviewsTx"
            /\ dbReviews' = tx.store
            /\ IF tx.ok
                  THEN /\ bounds' = [bounds EXCEPT !.pc = "storeReviewsPut", !.ts = now]
                       /\ ev' = Event("boundsStoreReviewsTx", "bounds", "true")
                       /\ UNCHANGED hookVars
                  ELSE BoundsMerge(AttachReviews(bounds.list, bounds.reviews), bounds.rows, TRUE)
            /\ UNCHANGED <<dbPlaces, dbTimestamps>>

\* storeReviews of the viewport fetch: the put of the 'reviews' timestamp runs;
\* then the reviews are attached and the places are merged
BoundsStoreReviewsPut ==
    \E fail \in BOOLEAN :
        /\ bounds.pc = "storeReviewsPut"
        /\ dbTimestamps' = IF fail THEN dbTimestamps
                           ELSE PutTimestamp(dbTimestamps, "reviews", bounds.ts,
                                             CacheDuration)
        /\ BoundsMerge(AttachReviews(bounds.list, bounds.reviews), bounds.rows, TRUE)
        /\ UNCHANGED <<dbPlaces, dbReviews>>

\* fetchReviewsForPlaces of the viewport fetch: getReviews() resolves
BoundsGetReviewsResolved ==
    \E fail \in BOOLEAN :
        /\ bounds.pc = "awaitGetReviews"
        /\ BoundsMerge(AttachCached(bounds.list, GetReviewsResult(Omitted, fail)), <<>>, TRUE)
        /\ UNCHANGED storeVars

InitBounds == InitStore

NextBounds ==
    \/ OpenSuccess /\ ev' = Event("open", "store", "true")
          /\ UNCHANGED <<storeVars, clockVars, clientVars, hookVars, load, cycle, inFlight, bounds>>
    \/ OpenError /\ ev' = Event("open", "store", "false")
          /\ UNCHANGED <<storeVars, clockVars, clientVars, hookVars, load, cycle, inFlight, bounds>>
    \/ CallBounds /\ UNCHANGED <<readyVars, clockVars, clientVars, load, cycle, inFlight>>
    \/ BoundsPlacesResolved /\ UNCHANGED <<readyVars, clockVars, clientVars, load, cycle, inFlight>>
    \/ BoundsReviewsResolved /\ UNCHANGED <<readyVars, clockVars, clientVars, load, cycle, inFlight>>
    \/ BoundsStoreReviewsTx /\ UNCHANGED <<readyVars, clockVars, clientVars, load, cycle, inFlight>>
    \/ BoundsStoreReviewsPut /\ UNCHANGED <<readyVars, clockVars, clientVars, load, cycle, inFlight>>
    \/ BoundsGetReviewsResolved /\ UNCHANGED <<readyVars, clockVars, clientVars, load, cycle, inFlight>>

SpecBounds == InitBounds /\ [][NextBounds]_vars

\* The map page: the initial load; refresh() once the load is done, until a
\* cycle has published; and one viewport fetch, either of the box of rows 2 and
\* 3 without a zoom level or of the box of every row at zoom 14 (which the cap
\* truncates), whose Reviews query returns at most MaxMapReviews rows; in any
\* interleaving.
MaxMapReviews == 3
MapBox == [swLat |-> 2, swLng |-> 0, neLat |-> 3, neLng |-> 0]
MapWhole == [swLat |-> 1, swLng |-> 0, neLat |-> MaxRows, neLng |-> 0]

NextMap ==
    \/ OpenSuccess /\ ev' = Event("open", "store", "true")
          /\ UNCHANGED <<storeVars, clockVars, clientVars, hookVars, load, cycle, inFlight, bounds>>
    \/ OpenError /\ ev' = Event("open", "store", "false")
          /\ UNCHANGED <<storeVars, clockVars, clientVars, hookVars, load, cycle, inFlight, bounds>>
    \/ LoadStart /\ UNCHANGED <<readyVars, clockVars, clientVars, bounds>>
    \/ LoadValidResolved /\ UNCHANGED <<readyVars, clockVars, clientVars, bounds>>
    \/ LoadCachedResolved /\ UNCHANGED <<readyVars, clockVars, clientVars, bounds>>
    \/ LoadFallbackResolved /\ UNCHANGED <<readyVars, clockVars, clientVars, bounds>>
    \/ PlaceQueryResolved /\ UNCHANGED <<readyVars, clockVars, clientVars, bounds>>
    \/ ReviewsQueryResolved /\ UNCHANGED <<readyVars, clockVars, clientVars, bounds>>
    \/ StoreReviewsTx /\ UNCHANGED <<readyVars, clockVars, clientVars, bounds>>
    \/ StoreReviewsPut /\ UNCHANGED <<readyVars, clockVars, clientVars, bounds>>
    \/ GetReviewsResolved /\ UNCHANGED <<readyVars, clockVars, clientVars, bounds>>
    \/ StorePlacesTx /\ UNCHANGED <<readyVars, clockVars, clientVars, bounds>>
    \/ StorePlacesPut /\ UNCHANGED <<readyVars, clockVars, clientVars, bounds>>
    \/ CallRefresh /\ load.pc = "done" /\ load.lastStored = ""
          /\ UNCHANGED <<readyVars, clockVars, clientVars, bounds>>
    \/ CallBounds /\ bounds.n = 0
          /\ \/ bounds'.box = MapBox /\ bounds'.zoom = NoZoom
             \/ bounds'.box = MapWhole /\ bounds'.zoom = [set |-> TRUE, level |-> MidZoom]
          /\ UNCHANGED <<readyVars, clockVars, clientVars, load, cycle, inFlight>>
    \/ BoundsPlacesResolved /\ UNCHANGED <<readyVars, clockVars, clientVars, load, cycle, inFlight>>
    \/ BoundsReviewsResolved /\ Len(bounds'.rows) <= MaxMapReviews
          /\ UNCHANGED <<readyVars, clockVars, clientVars, load, cycle, inFlight>>
    \/ BoundsStoreReviewsTx /\ UNCHANGED <<readyVars, clockVars, clientVars, load, cycle, inFlight>>
    \/ BoundsStoreReviewsPut /\ UNCHANGED <<readyVars, clockVars, clientVars, load, cycle, inFlight>>
    \/ BoundsGetReviewsResolved /\ UNCHANGED <<readyVars, clockVars, clientVars, load, cycle, inFlight>>

SpecMap == Init /\ [][NextMap]_vars

----------------------------------------------------------------------------
(* parseLocation: the location of a Place row (SpecParse) *)

\* the largest coordinate written in a location
MaxCoord == 1

\* What stands where a coordinate is expected: a finite number, NaN, Infinity
\* (a numeral such as 1e999 reads as Infinity), or text that is no numeral.
Num(v) == [t |-> "num", v |-> v]
NaN == [t |-> "nan", v |-> 0]
Infinity == [t |-> "inf", v |-> 0]
Text == [t |-> "text", v |-> 0]
Coords == {Num(v) : v \in -MaxCoord..MaxCoord} \cup {NaN, Infinity, Text}

\* The shapes of `location`: null; the string POINT(lng lat); a string that
\* starts with the extended-binary-hex header 0101000020E6100000 and encodes
\* lng then lat; a GeoJSON Point object {type, coordinates: [lng, lat]}; the
\* same as a JSON string (JSON has no NaN); an object {lat, lng}; any other
\* string; any other object.
Locations ==
    {[kind |-> k, lng |-> x, lat |-> y] :
        k \in {"POINT", "hex", "GeoJSON", "latLng"}, x \in Coords, y \in Coords}
    \cup {[kind |-> "GeoJSONString", lng |-> x, lat |-> y] :
            x \in Coords \ {NaN}, y \in Coords \ {NaN}}
    \cup {[kind |-> k, lng |-> Num(0), lat |-> Num(0)] :
            k \in {"null", "string", "object"}}

\* Number(token) of a token of the POINT string
ToNumber(c) == IF c.t = "text" THEN NaN ELSE c

\* Number.isNaN(value): true of the number NaN only, false of text
NumberIsNaN(c) == c.t = "nan"

NoLocation == [ok |-> FALSE, lat |-> Num(0), lng |-> Num(0)]
Found(lat, lng) == [ok |-> TRUE, lat |-> lat, lng |-> lng]

\* parseLocation(location)
ParseLocation(location) ==
    IF location.kind = "null" THEN NoLocation
    ELSE IF location.kind = "hex" THEN NoLocation
    ELSE IF location.kind = "POINT"
       THEN LET lng == ToNumber(location.lng)
                lat == ToNumber(location.lat)
            IN  IF NumberIsNaN(lat) \/ NumberIsNaN(lng) THEN NoLocation
                ELSE Found(lat, lng)
    ELSE IF location.kind \in {"GeoJSON", "GeoJSONString"}
       THEN IF NumberIsNaN(location.lat) \/ NumberIsNaN(location.lng) THEN NoLocation
            ELSE Found(location.lat, location.lng)
    ELSE NoLocation

\* a caller hands a location to parseLocation and gets the result
CallParseLocation ==
    \E location \in Locations :
        parsed' = [location |-> location, done |-> TRUE,
                   out |-> ParseLocation(location)]

InitParse == InitStore

NextParse ==
    CallParseLocation
       /\ UNCHANGED <<storeVars, readyVars, clockVars, call, hookVars, taskVars>>

SpecParse == InitParse /\ [][NextParse]_vars

----------------------------------------------------------------------------
(* Claims about the orchestrator (Spec) *)

\* the columns of the rows of a place list, without the attached reviews
RowsOf(ps) == [i \in 1..Len(ps) |-> [id |-> ps[i].id, name |-> ps[i].name]]
\* the rows a successful Place query returns
FetchedRows ==
    (CHOOSE res \in RemotePlaceResults : ~res.err /\ Len(res.rows) > 0).rows

\* C1: a load() that finds the 'places' entry valid and the place collection
\* non-empty publishes the stored places with isCached = true and loading =
\* false while the Place query of its background refresh is still outstanding
\* (or was never issued); when that background refresh succeeds, the published
\* list becomes the fetched places and isCached becomes false
C1_HitThenRefresh ==
    [][/\ (ev'.act = "loadHit"
             => /\ load.valid
                /\ places' = GetAll(dbPlaces) /\ Len(places') > 0
                /\ isCached' /\ ~loading'
                /\ (ev'.ret = "started"
                      => cycle'.owner = "bg" /\ cycle'.pc = "awaitPlaces")
                /\ (ev'.ret = "suppressed" => cycle' = cycle))
       /\ (ev'.act = "published" /\ ev'.owner = "bg"
             => /\ places' = cycle.fetched
                /\ RowsOf(places') = RowsOf(FetchedRows)
                /\ ~isCached')]_vars

\* C1 witness: the background refresh of a cache-hit load has just published
C1_Witness ==
    /\ ev.act = "published" /\ ev.owner = "bg"
    /\ load.path = "hit"
    /\ RowsOf(places) = RowsOf(FetchedRows) /\ ~isCached /\ ~loading

\* C2: a load() that found the 'places' entry invalid or expired, whose remote
\* fetch failed and which found stored places ends with the stored places
\* published, isCached = true and error = null
C2_FallbackWithoutError ==
    (/\ ev.act = "loadFallback" /\ load.path = "fallback" /\ ~load.valid
     /\ ~Validity(dbTimestamps, "places", CacheDuration, now))
        => (places = GetAll(dbPlaces) /\ isCached /\ ~loading /\ error = "null")

\* the 'places' entry as a cycle that stamped it at ts leaves it
Stamped(T, ts) ==
    \E r \in T : /\ r.key = "places"
                 /\ r.timestamp = ts
                 /\ r.expiresAt = ts + CacheDuration * 60000

C4_SingleFlight ==
    [][/\ inFlight' <= 1
       /\ (inFlight' = 1 <=> cycle'.pc # "idle")
       /\ (ev'.act \in {"loadSuppressed", "refreshSuppressed"}
             => /\ fetchingRef /\ cycle' = cycle /\ inFlight' = inFlight
                /\ storeVars' = storeVars /\ places' = places)
       /\ (ev'.act = "loadHit" /\ ev'.ret = "suppressed"
             => /\ fetchingRef /\ cycle' = cycle /\ inFlight' = inFlight
                /\ storeVars' = storeVars /\ places' = GetAll(dbPlaces))]_vars

\* C4 witness: a load() was suppressed while the cycle of a refresh() is in
\* flight
C4_Witness ==
    /\ ev.act = "loadSuppressed" /\ load.path = "suppressed"
    /\ cycle.owner = "refresh" /\ cycle.pc = "awaitPlaces" /\ inFlight = 1

\* C5 as stated: every call to refresh() performs a fetch-and-store cycle
C5_Original ==
    [][(ev'.act \in {"refreshStart", "refreshSuppressed"})
       => (cycle'.owner = "refresh" /\ cycle'.pc = "awaitPlaces")]_vars

\* C5 amended: a refresh() called while no cycle is in flight performs a cycle
\* whatever the state of the 'places' entry, and returns true when the cycle
\* fetched and published fresh places and false when its Place query failed; a
\* refresh() called while a cycle is in flight returns true without a cycle
C5_Refresh ==
    [][/\ (ev'.act \in {"refreshStart", "refreshSuppressed"} /\ ~fetchingRef
             => cycle'.owner = "refresh" /\ cycle'.pc = "awaitPlaces")
       /\ (ev'.act \in {"refreshStart", "refreshSuppressed"} /\ fetchingRef
             => ev'.ret = "true" /\ cycle' = cycle /\ places' = places)
       /\ (ev'.act = "published" /\ ev'.owner = "refresh"
             => /\ ev'.ret = "true"
                /\ (cycle.ready => places' = cycle.fetched)
                /\ RowsOf(places') = RowsOf(FetchedRows)
                /\ ~isCached')
       /\ (ev'.act = "failed" /\ ev'.owner = "refresh"
             => ev'.ret = "false" /\ places' = places)]_vars

\* C5 witness: a refresh() called over a valid 'places' entry has returned true
\* with the fetched places published and stored
C5_Witness ==
    /\ ev.act = "published" /\ ev.owner = "refresh" /\ ev.ret = "true"
    /\ ev.stored = "true" /\ load.path = "hit"
    /\ RowsOf(places) = RowsOf(FetchedRows) /\ dbPlaces = SetOf(places)

\* C6: no step of a refresh() whose cycle fails changes the published list or
\* isCached or touches the store, no read of the place collection is started,
\* and the failing step sets error to the failure
C6_RefreshFailureFrame ==
    [][/\ (ev'.owner = "refresh"
              /\ ev'.act \in {"refreshStart", "refreshSuppressed", "failed"}
             => /\ places' = places /\ isCached' = isCached
                /\ load' = load /\ storeVars' = storeVars)
       /\ (ev'.owner = "refresh" /\ ev'.act = "failed"
             => /\ error' \in {QueryError, NoRowsError}
                /\ ev'.ret = "false"
                /\ cycle' = NoCycle)]_vars

\* C6 witness: a refresh() has failed over a non-empty place collection and
\* nothing is published
C6_Witness ==
    /\ ev.act = "failed" /\ ev.owner = "refresh"
    /\ error = QueryError
    /\ dbPlaces # {} /\ places = <<>> /\ ~isCached

----------------------------------------------------------------------------
(* Claims about the store (SpecFresh, SpecStore) *)

\* what the freshness rule asks of the record of key at time t
FreshAt(key, maxAgeMinutes, t) ==
    \E r \in dbTimestamps :
        /\ r.key = key
        /\ t < r.expiresAt
        /\ t - r.timestamp < maxAgeMinutes * 60000

\* C7: on a ready store whose read succeeds, isCacheValid(key, maxAgeMinutes)
\* returns true exactly when a timestamp record for key exists and, at the time
\* of the call, now < expiresAt and now - timestamp < maxAgeMinutes*60000; it
\* returns false without a record.  (call is the last completed call: no write
\* has happened since, so dbTimestamps is what the call read.)
C7_IsValidExact ==
    (call.op = "isCacheValid" /\ isReady /\ ~call.failed)
        => (call.ret = "true" <=> FreshAt(call.key, call.d, call.at))

\* C7 witnesses: a record written with 120 minutes is refused at an age of 60
\* minutes when asked with maxAgeMinutes = 60 (the age condition decides) ...
C7_WitnessAgeDecides ==
    /\ call.op = "isCacheValid" /\ isReady /\ ~call.failed
    /\ call.ret = "false" /\ call.d = 60
    /\ \E r \in dbTimestamps :
          r.key = call.key /\ call.at < r.expiresAt /\ call.at - r.timestamp = 60 * 60000

\* C8 as stated: for every duration d, isCacheValid(key, d) right after a
\* successful write with d returns true, and isCacheValid(key, 0) returns false
C8_Original ==
    [][(/\ call.op \in {"storePlaces", "storeReviews"} /\ call.ret = "true"
        /\ call'.op = "isCacheValid" /\ call'.key = call.key
        /\ ~call'.failed /\ call'.at = call.at)
       => /\ (call'.d = call.d => call'.ret = "true")
          /\ (call'.d = 0 => call'.ret = "false")]_vars

\* C8 amended: for every key and every duration d > 0, isCacheValid(key, d)
\* right after setCacheTimestamp(key, d) (no time has passed, the read
\* succeeds) returns true; isCacheValid(key, 0) right after a write with any
\* duration returns false
C8_FreshAfterWrite ==
    [][(/\ call.op \in {"storePlaces", "storeReviews"} /\ call.ret = "true"
        /\ call'.op = "isCacheValid" /\ call'.key = call.key
        /\ ~call'.failed /\ call'.at = call.at)
       => /\ (call'.d = call.d /\ call.d > 0 => call'.ret = "true")
          /\ (call'.d = 0 => call'.ret = "false")]_vars

\* C8 witness: isCacheValid(key, 60) has returned true right after a store call
\* that stamped key with 60 minutes at this instant
C8_Witness ==
    /\ call.op = "isCacheValid" /\ call.ret = "true" /\ call.d = 60
    /\ call.after.op \in {"storePlaces", "storeReviews"} /\ call.after.ret = "true"
    /\ \E r \in dbTimestamps :
          r.key = call.key /\ r.timestamp = call.at /\ r.expiresAt = call.at + 60 * 60000

\* C9: on a ready store, getPlaces() after a storePlaces(P, d) that succeeded
\* returns the records of P (as a set), whatever the collection held before
C9_RoundTrip ==
    [][(/\ call.op = "storePlaces" /\ call.ret = "true"
        /\ call'.op = "getPlaces" /\ ~call'.failed)
       => /\ SetOf(call'.outPlaces) = SetOf(call.places)
          /\ Len(call'.outPlaces) = Len(call.places)]_vars

\* C9 witnesses: getPlaces() right after a successful storePlaces returned two
\* places / returned the empty list
C9_Witness ==
    /\ call.op = "getPlaces" /\ ~call.failed
    /\ call.after = [op |-> "storePlaces", ret |-> "true"]
    /\ Len(call.outPlaces) = 2

C9_WitnessEmpty ==
    /\ call.op = "getPlaces" /\ ~call.failed
    /\ call.after = [op |-> "storePlaces", ret |-> "true"]
    /\ call.outPlaces = <<>>
    /\ HasTimestamp(dbTimestamps, "places")

\* C10: after a clear() that succeeded on a ready store the three collections
\* are empty, getPlaces() and getReviews() right after it return empty lists, a
\* second clear() right after it changes nothing, and no clear() changes the
\* readiness flag
C10_Clear ==
    [][/\ (call'.op = "clearCache" /\ call'.ret = "true"
              => dbPlaces' = {} /\ dbReviews' = {} /\ dbTimestamps' = {})
       /\ (call'.op = "getPlaces" /\ call'.after = [op |-> "clearCache", ret |-> "true"]
              => call'.outPlaces = <<>>)
       /\ (call'.op = "getReviews" /\ call'.after = [op |-> "clearCache", ret |-> "true"]
              => call'.outReviews = <<>>)
       /\ (call.op = "clearCache" /\ call.ret = "true" /\ call'.op = "clearCache"
              => storeVars' = storeVars)
       /\ (call'.op = "clearCache" => isReady' = isReady)]_vars

\* C10 witness: a second clear() in a row has succeeded
C10_Witness ==
    /\ call.op = "clearCache" /\ call.ret = "true"
    /\ call.after = [op |-> "clearCache", ret |-> "true"]
    /\ isReady

----------------------------------------------------------------------------
(* Claims about clearing, failures and the review fetch (Spec) *)

\* C11: whenever clearPlacesCache() has returned true the place, review and
\* timestamp collections are empty, so that isCacheValid('places', m) is false
\* for every m; on a store that is not ready it returns false
C11_ClearedWhenTrue ==
    /\ (ev.act = "clear" /\ ev.ret = "true"
          => /\ dbPlaces = {} /\ dbReviews = {} /\ dbTimestamps = {}
             /\ \A m \in Durations : ~Validity(dbTimestamps, "places", m, now))
    /\ (ev.act = "clear" /\ ~isReady => ev.ret = "false")

\* the ids of a list of places
IdsOf(ps) == {ps[i].id : i \in 1..Len(ps)}
\* the ids of the places for which the Reviews table returned a review
ReviewedIds(rows) == {rows[i].place_id : i \in 1..Len(rows)}

\* C12: of the candidates inside the box, the zoom reduction keeps exactly those
\* with at least one review at zoom < 10; at 10 <= zoom < 14 with more than 30
\* candidates the reviewed ones plus unreviewed ones up to 30 in total; and all
\* candidates otherwise.  A candidate has a review when the Reviews table, as
\* the query of the same fetch returns it, holds one for its id.
C12_ZoomTiers ==
    (bounds.gotRows /\ bounds.zoom.set)
        => LET z == bounds.zoom.level
               cand == IdsOf(bounds.candidates)
               reviewed == cand \cap ReviewedIds(bounds.rows)
               kept == IdsOf(bounds.kept)
           IN  /\ Len(bounds.kept) = Cardinality(kept)
               /\ (z < 10 => kept = reviewed)
               /\ (z >= 10 /\ z < 14 /\ Cardinality(cand) > 30
                     => /\ reviewed \subseteq kept /\ kept \subseteq cand
                        /\ Cardinality(kept) = Max(30, Cardinality(reviewed)))
               /\ (z >= 14 \/ (z >= 10 /\ Cardinality(cand) <= 30)
                     => kept = cand)

\* C13: a merge that does not take the capping branch keeps the published list
\* as a prefix (every place with its record, its reviews and its position) and
\* appends, in fetch order, exactly the surviving fetched places whose id was
\* not published; no published entry is replaced by a fetched one
C13_MergeAppendsOnly ==
    [][(ev'.act = "boundsMerged" /\ ev'.ret # "capped")
       => LET fetched == bounds'.list
              added == SubSeq(places', Len(places) + 1, Len(places'))
          IN  /\ IdsOf(fetched) = IdsOf(bounds'.kept)
              /\ Len(places') >= Len(places)
              /\ SubSeq(places', 1, Len(places)) = places
              /\ added = SelectSeq(fetched, LAMBDA p : p.id \notin IdsOf(places))]_vars

\* C13 witness: a merge has appended a new place while a fetched place whose id
\* was already published, with other reviews, left the published entry alone
C13_Witness ==
    /\ ev.act = "boundsMerged" /\ ev.ret = "appended"
    /\ \E i \in 1..Len(places), j \in 1..Len(bounds.list) :
          /\ bounds.list[j].id = places[i].id
          /\ bounds.list[j].reviews # places[i].reviews
    /\ \E j \in 1..Len(bounds.list) : places[Len(places)] = bounds.list[j]

\* C14: a merge (with a zoom level) whose combined list exceeds 100 places
\* publishes at most 100 places, and drops no place that has a review while
\* it keeps one that has none
C14_CapHolds ==
    (ev.act = "boundsMerged" /\ ev.ret = "capped")
        => /\ Len(places) <= 100
           /\ \A j \in 1..Len(bounds.list) :
                 HasReviews(bounds.list[j]) => bounds.list[j].id \in IdsOf(places)

\* C15: from the cache hit that started it to its failure, the background
\* refresh runs over the cached places published with isCached = true, and no
\* step before its publication, its failure included, changes the published
\* list, isCached or error (error stays what it was at the cache hit: null
\* when no refresh() failed while the load was reading the cache)
C15_BackgroundFailureFrame ==
    [][(cycle.owner = "bg" /\ ev'.act # "published")
       => /\ load.path = "hit"
          /\ Len(places) > 0 /\ isCached
          /\ places' = places /\ isCached' = isCached /\ error' = error
          /\ ~loading']_vars

\* C15 witness: the background refresh of a cache hit has failed and the
\* cached place is still published
C15_Witness ==
    /\ ev.act = "failed" /\ ev.owner = "bg"
    /\ load.path = "hit" /\ cycle.pc = "idle"
    /\ RowsOf(places) = <<[id |-> 1, name |-> "n1"]>>
    /\ isCached /\ error = "null" /\ ~loading

\* the step that completed the load() (fetchPlacesWithCache returned)
LoadJustCompleted ==
    /\ load.pc = "done"
    /\ \/ ev.act \in {"loadHit", "loadSuppressed", "loadFallback"}
       \/ ev.act = "published" /\ ev.owner = "load"

\* C16 (at completion): when load() has completed, loading is false and the
\* published list is non-empty or error is non-null
C16_CompletedLoadShowsPlacesOrError ==
    LoadJustCompleted => (~loading /\ (Len(places) > 0 \/ error # "null"))

\* C17 (remote-only operation): once the open request has failed, the store
\* being not ready for good, loading eventually becomes false
C17_RemoteOnlyLoads ==
    (opened /\ ~isReady) ~> ~loading

\* C18: a cycle whose storePlaces failed still publishes the fetched places,
\* and when the last storePlaces of a session failed, the load() of the next
\* session does not take the cache-hit path
C18_FailedStoreThenMiss ==
    [][/\ (ev'.act = "published" /\ ev'.stored = "false"
             => RowsOf(places') = RowsOf(FetchedRows) /\ ~isCached')
       /\ (load.prevStored = "false" => ev'.act # "loadHit")]_vars

\* C19: a cycle leaves its Place query either with at least one row or by
\* failing; the step in which it fails (query error, or zero rows) comes
\* straight after the query, writes to none of the three collections, leaves
\* the published list and isCached as they are, and hands the error to its
\* caller (load() and refresh() record it); the step that started the cycle
\* wrote nothing either
C19_FailedCycleFrame ==
    [][/\ (cycle.pc = "awaitPlaces" /\ cycle'.pc # "awaitPlaces"
             => \/ ev'.act = "failed" /\ cycle' = NoCycle
                \/ ev'.act = "rows" /\ Len(cycle'.fetched) > 0)
       /\ (ev'.act = "failed"
             => /\ cycle.pc = "awaitPlaces"
                /\ storeVars' = storeVars
                /\ places' = places /\ isCached' = isCached
                /\ ~fetchingRef'
                /\ (ev'.owner # "bg" => error' \in {QueryError, NoRowsError})
                /\ (ev'.owner = "load" => load'.pc = "awaitFallback"))
       /\ (ev'.act \in {"refreshStart", "loadMiss"}
             => storeVars' = storeVars /\ places' = places /\ isCached' = isCached)
      ]_vars

\* C19 witness: the cycle of a load() has failed on zero rows over a store that
\* holds a place and a timestamp, with nothing published
C19_Witness ==
    /\ ev.act = "failed" /\ ev.owner = "load"
    /\ error = NoRowsError
    /\ load.pc = "awaitFallback"
    /\ dbPlaces # {} /\ dbTimestamps # {} /\ places = <<>> /\ ~isCached

\* C20: when the Reviews query of a viewport fetch returned at least one row,
\* fetchReviewsForPlaces returns the places it was given, in their order, each
\* with an explicit review list holding exactly the fetched rows whose place_id
\* is the place's id, in the order fetched (the empty list when none matches)
C20_ReviewsAttached ==
    [][(ev'.act = "boundsMerged" /\ Len(bounds'.rows) > 0)
       => LET given == bounds'.kept
              returned == bounds'.list
              rows == bounds'.rows
          IN  /\ Len(returned) = Len(given)
              /\ \A i \in 1..Len(returned) :
                    LET own == {k \in 1..Len(rows) : rows[k].place_id = given[i].id}
                        got == returned[i].reviews
                    IN  /\ returned[i].id = given[i].id
                        /\ returned[i].name = given[i].name
                        /\ got.set
                        /\ Len(got.list) = Cardinality(own)
                        /\ \A j \in 1..Len(got.list) :
                              /\ got.list[j].place_id = given[i].id
                              /\ \E k \in own : rows[k] = got.list[j]
                        /\ \A k \in own : \E j \in 1..Len(got.list) : got.list[j] = rows[k]
                        /\ \A j1, j2 \in 1..Len(got.list) :
                              j1 < j2 => \E k1, k2 \in own :
                                            /\ k1 < k2
                                            /\ rows[k1] = got.list[j1]
                                            /\ rows[k2] = got.list[j2]]_vars

\* C20 witness: a viewport fetch has returned a place with two fetched reviews
\* and a place with none, while one fetched review belongs to no place
C20_Witness ==
    /\ ev.act = "boundsMerged" /\ Len(bounds.rows) = 3
    /\ \E i, j \in 1..Len(bounds.list) :
          /\ Len(bounds.list[i].reviews.list) = 2
          /\ bounds.list[j].reviews = Attached(<<>>)

----------------------------------------------------------------------------
(* Claims about the cached reviews, the timestamps and the guard *)

\* C21: when the Reviews query of a viewport fetch succeeded with zero rows
\* and getReviews() has answered, fetchReviewsForPlaces returns every place it was given with an explicit
\* review list: the reviews of the local review collection whose place_id is
\* the place's id (the empty list when there is none)
C21_CachedReviewsAttached ==
    [][(ev'.act = "boundsMerged" /\ bounds.pc = "awaitGetReviews"
          /\ bounds'.gotRows /\ bounds'.rows = <<>>)
       => /\ Len(bounds'.list) = Len(bounds'.kept)
          /\ \A i \in 1..Len(bounds'.list) :
                LET p == bounds'.list[i]
                IN  /\ p.id = bounds'.kept[i].id
                    /\ p.reviews =
                         Attached(SelectSeq(GetAll(dbReviews),
                                            LAMBDA r : r.place_id = p.id))]_vars

\* the stored reviews of one place, in key order
StoredReviewsOf(placeId) ==
    SelectSeq(GetAll(dbReviews), LAMBDA r : r.place_id = placeId)

\* the stored reviews of each listed place, one list after the other
RECURSIVE ListedReviews(_)
ListedReviews(ids) ==
    IF Len(ids) = 0 THEN <<>>
    ELSE ListedReviews(SubSeq(ids, 1, Len(ids) - 1)) \o StoredReviewsOf(ids[Len(ids)])

\* getReviews() on a ready store has answered without a storage error
GetReviewsAnswered == call.op = "getReviews" /\ isReady /\ ~call.failed

\* C22 as stated: getReviews() without placeIds returns every stored review;
\* with a list, whatever its length, the concatenation in input order of the
\* reviews of each listed id (an id listed twice contributes twice)
C22_ListOfAnyLength ==
    GetReviewsAnswered
       => IF call.given
          THEN call.outReviews = ListedReviews(call.ids)
          ELSE /\ SetOf(call.outReviews) = dbReviews
               /\ Len(call.outReviews) = Cardinality(dbReviews)

\* C22 amended: getReviews() without placeIds, or with an empty list, returns
\* every stored review; with a non-empty list, the concatenation in input order
\* of the reviews of each listed id (an id listed twice contributes twice)
C22_GetReviews ==
    GetReviewsAnswered
       => IF call.given /\ Len(call.ids) > 0
          THEN /\ call.outReviews = ListedReviews(call.ids)
               /\ (Len(call.ids) = 2 /\ call.ids[1] = call.ids[2]
                     => call.outReviews = StoredReviewsOf(call.ids[1])
                                            \o StoredReviewsOf(call.ids[1]))
          ELSE /\ SetOf(call.outReviews) = dbReviews
               /\ Len(call.outReviews) = Cardinality(dbReviews)

\* C22 witness: an id listed twice has contributed its two reviews twice
C22_Witness ==
    /\ GetReviewsAnswered
    /\ call.given /\ call.ids = <<1, 1>>
    /\ Len(call.outReviews) = 4

\* what the claim says of a location: the four shapes yield the coordinates
\* they encode when both are finite numbers, everything else yields null
ClaimedLocation(location) ==
    IF location.kind \in {"POINT", "hex", "GeoJSON", "GeoJSONString", "latLng"}
       /\ location.lat.t = "num" /\ location.lng.t = "num"
    THEN Found(location.lat, location.lng)
    ELSE NoLocation

\* C23: parseLocation classifies its input: a POINT(lng lat) string, a string
\* with the extended-binary-hex header, a GeoJSON Point (object or JSON string)
\* and an object with a lat/lng pair yield the encoded {lat, lng}; every other
\* input, and every parse with a non-finite coordinate, yields null
C23_ParseLocationClassifies ==
    parsed.done => parsed.out = ClaimedLocation(parsed.location)

\* C24: once the component has unmounted no step updates its state: neither
\* the ready flag or the error of the store hook, nor places, isCached,
\* loading, error or isFetchingFresh
C24_NoUpdateAfterUnmount ==
    [][~mounted
       => /\ isReady' = isReady /\ dbError' = dbError
          /\ places' = places /\ isCached' = isCached /\ loading' = loading
          /\ error' = error /\ isFetchingFresh' = isFetchingFresh]_vars

\* C25: a viewport fetch starts whether or not a cycle is in flight and leaves
\* the guard and the cycle alone; when a background refresh or a refresh()
\* publishes, the published list is exactly the rows that cycle fetched, so a
\* place only a merge had added before is no longer published
C25_LastWriteWins ==
    [][/\ (ev'.act = "boundsStart"
             => fetchingRef' = fetchingRef /\ cycle' = cycle)
       /\ (ev'.act = "published" /\ ev'.owner \in {"bg", "refresh"}
             => /\ RowsOf(places') = RowsOf(FetchedRows)
                /\ \A i \in 1..Len(places) :
                      places[i].id \notin IdsOf(FetchedRows)
                         => places[i].id \notin IdsOf(places'))]_vars

\* C25 witness: the viewport fetch merged place 3 while the background refresh
\* was in flight; the refresh has since published, and place 3 is gone
C25_Witness ==
    /\ ev.act = "published" /\ ev.owner = "bg"
    /\ bounds.pc = "idle" /\ bounds.during = "bg"
    /\ 3 \in IdsOf(bounds.list)
    /\ 3 \notin IdsOf(places)

\* the timestamp records of a key
RecordsOf(T, key) == {r \in T : r.key = key}
\* the store call that stamps a key
StoreOpOf(key) == IF key = "places" THEN "storePlaces" ELSE "storeReviews"

\* C26: the timestamp record of 'places' (of 'reviews') is created or changed
\* only by a storePlaces (storeReviews) call that returns true, which has then
\* replaced the collection by its records and stamps the key with timestamp =
\* now and expiresAt = timestamp + durationMinutes * 60000; a store call that
\* does not return true leaves the record of its key as it was; records only
\* disappear through clear(); and no record of another key exists
C26_TimestampWrites ==
    [][/\ \A key \in Keys :
             LET before == RecordsOf(dbTimestamps, key)
                 after == RecordsOf(dbTimestamps', key)
             IN  /\ (after # before /\ after # {}
                       => /\ call'.op = StoreOpOf(key)
                          /\ call'.ret = "true"
                          /\ after = {[key |-> key, timestamp |-> now,
                                       expiresAt |-> now + call'.d * 60000]}
                          /\ IF key = "places"
                                THEN dbPlaces' = SetOf(call'.places)
                                ELSE dbReviews' = SetOf(call'.reviews))
                 /\ (after # before /\ after = {} => call'.op = "clearCache")
                 /\ (call'.op = StoreOpOf(key) /\ call'.ret # "true"
                       => after = before)
       /\ \A r \in dbTimestamps' : r.key \in Keys]_vars

\* C26 witness: an hour after 'places' was stamped a storePlaces call has
\* failed, and the record of 'places' is the one written an hour ago
C26_Witness ==
    /\ call.op = "storePlaces" /\ call.failed /\ call.ret = "false"
    /\ now > 0
    /\ HasTimestamp(dbTimestamps, "places")
    /\ TimestampOf(dbTimestamps, "places").timestamp = 0

\* C27: the guard is set exactly while a cycle is in flight; a cycle ends by
\* publishing or by failing and either way releases the guard; a refresh()
\* called while no cycle is in flight is not suppressed and issues the Place
\* query, and a refresh() is suppressed only while a cycle is in flight
C27_GuardReleased ==
    [][/\ (fetchingRef <=> cycle.pc # "idle")
       /\ (fetchingRef' <=> cycle'.pc # "idle")
       /\ (cycle.pc # "idle" /\ cycle'.pc = "idle"
             => ev'.act \in {"published", "failed"} /\ ~fetchingRef')
       /\ (ev'.owner = "refresh" /\ cycle.pc = "idle"
             => /\ ev'.act = "refreshStart"
                /\ cycle'.pc = "awaitPlaces" /\ cycle'.owner = "refresh"
                /\ fetchingRef')
       /\ (ev'.act = "refreshSuppressed" => cycle.pc # "idle")]_vars

\* C27 witness: after the cycle of the load failed, a refresh() has passed the
\* guard and its Place query is outstanding
C27_Witness ==
    /\ ev.act = "refreshStart"
    /\ cycle.pc = "awaitPlaces" /\ cycle.owner = "refresh"
    /\ load.pc = "done" /\ load.path \in {"fallback", "empty"}
    /\ error \in {QueryError, NoRowsError}

\* C28: isFetchingFresh is true whenever the in-flight guard is set
C28_FetchingFreshWhileInFlight ==
    fetchingRef => isFetchingFresh

\* C29: when a refresh() or a background refresh has published the places it
\* fetched, error is null
C29_NoErrorBesideFreshData ==
    (ev.act = "published" /\ ev.owner \in {"bg", "refresh"}) => error = "null"

\* C30: the published list never holds two places with the same id
C30_NoDuplicateIds ==
    \A i, j \in 1..Len(places) : places[i].id = places[j].id => i = j

\* C30 witness: a capped merge has been published and a cycle has since
\* published the rows it fetched
C30_Witness ==
    /\ ev.act = "published"
    /\ bounds.pc = "idle" /\ bounds.n = 1 /\ bounds.zoom.set
    /\ Len(bounds.list) > PlaceCap
    /\ Len(places) = Len(FetchedRows)

\* C30 witness: a capped merge over the published rows holds PlaceCap places
C30_WitnessCapped ==
    /\ ev.act = "boundsMerged" /\ ev.ret = "capped"
    /\ load.pc = "done" /\ load.path = "fresh"
    /\ Len(places) = PlaceCap

====
